---- MODULE Spec2Model ----
(***************************************************************************)
(* A model of the audio clip engine of src/clip.go.                        *)
(*                                                                         *)
(* Go slices are modelled as they are laid out: a slice is a header        *)
(* (backing array, offset, length) into a heap of backing arrays, so that  *)
(* aliasing between a clip and the views cut from it, spare capacity, and  *)
(* the reallocation done by append are all part of the state.              *)
(***************************************************************************)
EXTENDS Integers, Sequences, FiniteSets, TLC

VARIABLES
    arrays,     \* the heap: arrays[k] is the k-th backing array of int16
    clips,      \* every *Clip the program holds, in order of creation
    views,      \* views[k]: the Slice call that made clips[k], if one did
    files,      \* the wave files written: [src: the clip encoded, wave]
    last,       \* the operation that ran last: its arguments and results
    panicked,   \* the run-time panic that ended the program, "" if none
    nops        \* operations run so far

vars == <<arrays, clips, views, files, last, panicked, nops>>

----------------------------------------------------------------------------
(* Bounds of the model. *)

MaxChannels == 2
MaxFlat == 3
MaxSpare == 1
MaxIdx == 2
MaxDiv == 2
MaxClips == 3
MaxOps == 3
MaxMixLen == 2
MaxCodecLen == 2

----------------------------------------------------------------------------
(* Fixed-width integers. *)

MaxInt16 == 32767
MinInt16 == -MaxInt16 - 1

\* int16(x): the low 16 bits of x as a two's complement integer.
Int16(x) == ((x + 2^15) % 2^16) - 2^15

\* A Go int has 64 bits, which is wider than the integers of the model
\* checker.  It is kept as two words, hi * 2^32 + lo with lo a two's
\* complement 32-bit integer, so int32(v) is v.lo and int(x) of an int32 x (Int64)
\* is x itself with hi = 0.
Int64(x) == [hi |-> 0, lo |-> x]
Int32(v) == v.lo

----------------------------------------------------------------------------
(* Go slices over a heap A of backing arrays.  A header h is               *)
(* [arr, off, len]: h views A[h.arr][h.off+1 .. h.off+h.len]; arr = 0 is   *)
(* the zero-sized allocation of make([]int16, 0) and of a nil slice.       *)

NilSlice == [arr |-> 0, off |-> 0, len |-> 0]

Zeros(n) == [i \in 1..n |-> 0]

Cap(A, h) == IF h.arr = 0 THEN 0 ELSE Len(A[h.arr]) - h.off

\* The elements a slice holds.
Elems(A, h) == [i \in 1..h.len |-> A[h.arr][h.off + i]]

\* s[i] with i counted from 0, as in the source.
Load(A, h, i) == A[h.arr][h.off + i + 1]

\* s[i] = v.
Store(A, h, i, v) == [A EXCEPT ![h.arr][h.off + i + 1] = v]

InRange(h, i) == 0 <= i /\ i < h.len

\* append(s, es...): in place when the capacity allows, else into a new
\* backing array whose capacity is the needed length plus some spare the
\* run time chooses.  es are values: append copies as memmove does.
AppendSlice(A, h, es, spare) ==
    LET need == h.len + Len(es) IN
    IF Len(es) = 0 THEN [arrays |-> A, s |-> h]
    ELSE IF need <= Cap(A, h)
    THEN [arrays |-> [A EXCEPT ![h.arr] =
                        [k \in 1..Len(@) |->
                            IF k > h.off + h.len /\ k <= h.off + need
                            THEN es[k - h.off - h.len] ELSE @[k]]],
          s |-> [h EXCEPT !.len = need]]
    ELSE [arrays |-> Append(A, Elems(A, h) \o es \o Zeros(spare)),
          s |-> [arr |-> Len(A) + 1, off |-> 0, len |-> need]]

\* s[lo:hi] is legal when 0 <= lo <= hi <= cap(s).
SliceOk(A, h, lo, hi) == 0 <= lo /\ lo <= hi /\ hi <= Cap(A, h)
\* Mutant of SubSlice: the window is cut from the slice's first element.
SubSliceFromZero(h, lo, hi) == [arr |-> h.arr, off |-> h.off, len |-> hi - lo]
SubSlice(h, lo, hi) == [arr |-> h.arr, off |-> h.off + lo, len |-> hi - lo]

----------------------------------------------------------------------------
(* Clips. *)

\* new(Clip): the zero value.
ZeroClip == [Samples |-> <<>>, Name |-> <<>>, SampleRate |-> Int64(0)]

NewClip(numChannels) ==
    [ZeroClip EXCEPT !.Samples = [i \in 1..numChannels |-> NilSlice]]

\* The samples of a clip, channel by channel.
Content(A, c) == [ch \in 1..Len(c.Samples) |-> Elems(A, c.Samples[ch])]
Contents(A, C) == [k \in 1..Len(C) |-> Content(A, C[k])]

NoView == [of |-> 0, start |-> 0, end |-> 0]
NoOp == [op |-> "none", a |-> 0, b |-> 0, x |-> 0, y |-> 0, err |-> "",
         pre |-> <<>>, out |-> <<>>]

----------------------------------------------------------------------------
(* Wave containers.  A name is a sequence of fragments, so that            *)
(* strings.Contains(name, ".wav") can be evaluated.                        *)

\* The flat sample data of the input containers: 1, 2, ..., n, so that
\* every sample of a container differs from the others.
Ramp(n) == [i \in 1..n |-> i]

Wave(fileName, numChannels, sampleRate, samples) ==
    [exists |-> TRUE, FileName |-> fileName, NumChannels |-> numChannels,
     SampleRate |-> sampleRate, Samples |-> samples]

NoFile == [exists |-> FALSE, FileName |-> <<"none">>, NumChannels |-> 0,
           SampleRate |-> 0, Samples |-> <<>>]

Containers ==
    { Wave(<<"kick", ".wav">>, nc, 8, Ramp(n)) :
        nc \in 0..MaxChannels, n \in 0..MaxFlat }

\* The loop of NewClipFromWave: sample i goes to channel i % numChannels.
RECURSIVE Deinterlace(_, _, _, _, _, _)
Deinterlace(A, S, ws, i, numChannels, spare) ==
    IF i >= Len(ws) THEN [arrays |-> A, Samples |-> S, panic |-> ""]
    ELSE IF numChannels = 0
    THEN [arrays |-> A, Samples |-> S, panic |-> "integer divide by zero"]
    ELSE LET ch == (i % numChannels) + 1
             r == AppendSlice(A, S[ch], <<ws[i + 1]>>, spare)
         IN Deinterlace(r.arrays, [S EXCEPT ![ch] = r.s], ws, i + 1,
                        numChannels, spare)

\* NewClipFromWave.  The name is set on the clip that line 44 replaces.
NewClipFromWave(A, w, spare) ==
    IF ~w.exists
    THEN [arrays |-> A, clip |-> ZeroClip, err |-> "CodecError", panic |-> ""]
    ELSE LET c0 == [ZeroClip EXCEPT !.Name = w.FileName]
             numChannels == w.NumChannels
             c1 == [NewClip(w.NumChannels) EXCEPT !.SampleRate = Int64(w.SampleRate)]
             d == Deinterlace(A, c1.Samples, w.Samples, 0, numChannels, spare)
         IN [arrays |-> d.arrays, clip |-> [c1 EXCEPT !.Samples = d.Samples],
             err |-> "", panic |-> d.panic]

----------------------------------------------------------------------------
(* Append. *)

\* Mutant of AppendChannels: every channel is given the source's channel 0.
RECURSIVE AppendChannelsFirst(_, _, _, _, _)
AppendChannelsFirst(A, T, S, chanNum, spare) ==
    IF chanNum > Len(T) THEN [arrays |-> A, Samples |-> T]
    ELSE LET r == AppendSlice(A, T[chanNum], Elems(A, S[1]), spare)
         IN AppendChannelsFirst(r.arrays, [T EXCEPT ![chanNum] = r.s], S,
                                chanNum + 1, spare)

RECURSIVE AppendChannels(_, _, _, _, _)
AppendChannels(A, T, S, chanNum, spare) ==
    IF chanNum > Len(T) THEN [arrays |-> A, Samples |-> T]
    ELSE LET r == AppendSlice(A, T[chanNum], Elems(A, S[chanNum]), spare)
         IN AppendChannels(r.arrays, [T EXCEPT ![chanNum] = r.s], S,
                           chanNum + 1, spare)

ClipAppend(A, target, source, spare) ==
    IF Len(target.Samples) # Len(source.Samples)
    THEN [arrays |-> A, clip |-> target, err |-> "ChannelMismatch"]
    ELSE LET r == AppendChannels(A, target.Samples, source.Samples, 1, spare)
         IN [arrays |-> r.arrays, clip |-> [target EXCEPT !.Samples = r.Samples],
             err |-> ""]

----------------------------------------------------------------------------
(* Mix. *)

\* Mutant of Mixed: the clamp at the minimum is missing.
MixedNoMinimum(sample, sample2) ==
    LET mixed == Int16(sample + sample2) IN
    IF sample2 > 0 /\ mixed < sample THEN MaxInt16 ELSE mixed

\* Lines 128-134: the 16-bit sum of the two samples, clamped when the sum
\* moved against the sign of sample2.
Mixed(sample, sample2) ==
    LET mixed == Int16(sample + sample2) IN
    IF sample2 > 0 /\ mixed < sample THEN MaxInt16
    ELSE IF sample2 < 0 /\ mixed > sample THEN MinInt16
    ELSE mixed

\* The loop of mix: t's samples are read, and s's written, one index at a
\* time in the heap the two slices may share.
RECURSIVE MixLoop(_, _, _, _)
MixLoop(A, s, t, i) ==
    IF i >= t.len THEN A
    ELSE MixLoop(Store(A, s, i, Mixed(Load(A, t, i), Load(A, s, i))), s, t, i + 1)

\* mix: s is the function's own copy of the header; the slice append returns
\* is assigned to that copy only.
Mix(A, s0, t, spare) ==
    LET r == IF t.len > s0.len
             THEN AppendSlice(A, s0, Zeros(t.len - s0.len), spare)
             ELSE [arrays |-> A, s |-> s0]
    IN [arrays |-> MixLoop(r.arrays, r.s, t, 0), s |-> r.s]

\* Clip.Mix: the loop over the channels; stored[ch] is what mix's own slice
\* held when mix returned.
RECURSIVE MixChannels(_, _, _, _, _, _)
MixChannels(A, S, T, chanNum, spare, stored) ==
    IF chanNum > Len(S) THEN [arrays |-> A, stored |-> stored]
    ELSE LET r == Mix(A, S[chanNum], T[chanNum], spare)
         IN MixChannels(r.arrays, S, T, chanNum + 1, spare,
                        Append(stored, Elems(r.arrays, r.s)))

ClipMix(A, s, t, spare) ==
    IF Len(s.Samples) # Len(t.Samples)
    THEN [arrays |-> A, err |-> "ChannelMismatch", stored |-> <<>>]
    ELSE LET r == MixChannels(A, s.Samples, t.Samples, 1, spare, <<>>)
         IN [arrays |-> r.arrays, err |-> "", stored |-> r.stored]

----------------------------------------------------------------------------
(* Slice and Split. *)

RECURSIVE SliceChannels(_, _, _, _, _, _)
SliceChannels(A, S, T, chanNum, startIndex, endIndex) ==
    IF chanNum > Len(S) THEN [Samples |-> T, panic |-> ""]
    ELSE IF ~SliceOk(A, S[chanNum], startIndex, endIndex)
    THEN [Samples |-> T, panic |-> "slice bounds out of range"]
    ELSE SliceChannels(A, S,
                       [T EXCEPT ![chanNum] = SubSlice(S[chanNum], startIndex, endIndex)],
                       chanNum + 1, startIndex, endIndex)

\* Clip.Slice: end is the end index after the clamp of lines 153-155.
ClipSlice(A, s, startIndex, endIndex) ==
    LET t == NewClip(Len(s.Samples)) IN
    IF Len(s.Samples) = 0
    THEN [clip |-> t, end |-> endIndex, err |-> "", panic |-> "index out of range"]
    ELSE LET end == IF endIndex > s.Samples[1].len THEN s.Samples[1].len
                    ELSE endIndex
             r == SliceChannels(A, s.Samples, t.Samples, 1, startIndex, end)
         IN [clip |-> [t EXCEPT !.Samples = r.Samples], end |-> end,
             err |-> "", panic |-> r.panic]

\* Mutant of SplitLoop: the last division is given the remainder too.
RECURSIVE SplitLoopRemainder(_, _, _, _, _, _)
SplitLoopRemainder(A, c, stepLen, numDivisions, i, subSamples) ==
    IF i >= numDivisions THEN [clips |-> subSamples, panic |-> ""]
    ELSE LET start == stepLen * i
             end == IF i = numDivisions - 1 THEN c.Samples[1].len
                    ELSE start + stepLen
             r == ClipSlice(A, c, start, end)
         IN IF r.panic # "" THEN [clips |-> subSamples, panic |-> r.panic]
            ELSE SplitLoopRemainder(A, c, stepLen, numDivisions, i + 1,
                                    Append(subSamples, r.clip))

RECURSIVE SplitLoop(_, _, _, _, _, _)
SplitLoop(A, c, stepLen, numDivisions, i, subSamples) ==
    IF i >= numDivisions THEN [clips |-> subSamples, panic |-> ""]
    ELSE LET start == stepLen * i
             end == start + stepLen
             r == ClipSlice(A, c, start, end)
         IN IF r.panic # "" THEN [clips |-> subSamples, panic |-> r.panic]
            ELSE SplitLoop(A, c, stepLen, numDivisions, i + 1,
                           Append(subSamples, r.clip))

\* Clip.Split; numDivisions >= 0 here (a negative one panics in make).
ClipSplit(A, c, numDivisions) ==
    IF Len(c.Samples) = 0 THEN [clips |-> <<>>, step |-> 0, panic |-> "index out of range"]
    ELSE IF numDivisions = 0
    THEN [clips |-> <<>>, step |-> 0, panic |-> "integer divide by zero"]
    ELSE LET stepLen == c.Samples[1].len \div numDivisions
             r == SplitLoop(A, c, stepLen, numDivisions, 0, <<>>)
         IN [clips |-> r.clips, step |-> stepLen, panic |-> r.panic]

----------------------------------------------------------------------------
(* Stretch and Reverse. *)

\* The inner loop of Stretch (lines 183-186) on channel h, i counting down.
RECURSIVE StretchLoop(_, _, _)
StretchLoop(A, h, i) ==
    IF i < 0 THEN [arrays |-> A, panic |-> ""]
    ELSE IF ~InRange(h, i * 2) \/ ~InRange(h, i)
    THEN [arrays |-> A, panic |-> "index out of range"]
    ELSE StretchLoop(Store(Store(A, h, i * 2, Load(A, h, i)), h, i, 0), h, i - 1)

RECURSIVE StretchChannels(_, _, _, _, _)
StretchChannels(A, S, chanNum, sampleLen, spare) ==
    IF chanNum > Len(S) THEN [arrays |-> A, Samples |-> S, panic |-> ""]
    ELSE LET r == AppendSlice(A, S[chanNum], Zeros(sampleLen), spare)
             S1 == [S EXCEPT ![chanNum] = r.s]
             l == StretchLoop(r.arrays, S1[chanNum], S1[1].len)
         IN IF l.panic # "" THEN [arrays |-> l.arrays, Samples |-> S1, panic |-> l.panic]
            ELSE StretchChannels(l.arrays, S1, chanNum + 1, sampleLen, spare)

ClipStretch(A, c, spare) ==
    IF Len(c.Samples) = 0
    THEN [arrays |-> A, clip |-> c, panic |-> "index out of range"]
    ELSE LET r == StretchChannels(A, c.Samples, 1, c.Samples[1].len, spare)
         IN [arrays |-> r.arrays, clip |-> [c EXCEPT !.Samples = r.Samples],
             panic |-> r.panic]

\* The inner loop of Reverse: swap i and j while i < j.
RECURSIVE ReverseLoop(_, _, _, _)
ReverseLoop(A, h, i, j) ==
    IF ~(i < j) THEN A
    ELSE LET tmp == Load(A, h, i)
         IN ReverseLoop(Store(Store(A, h, i, Load(A, h, j)), h, j, tmp), h, i + 1, j - 1)

RECURSIVE ReverseChannels(_, _, _)
ReverseChannels(A, S, chanNum) ==
    IF chanNum > Len(S) THEN A
    ELSE ReverseChannels(ReverseLoop(A, S[chanNum], 0, S[chanNum].len - 1), S, chanNum + 1)

ClipReverse(A, c) == ReverseChannels(A, c.Samples, 1)

----------------------------------------------------------------------------
(* Export to a wave container. *)

Contains(name, frag) == \E k \in 1..Len(name) : name[k] = frag

\* Mutant of Interlace: the loops are nested the other way round, so the
\* channels are written one after the other.
RECURSIVE InterlacePlanar(_, _, _, _, _)
InterlacePlanar(A, S, offset, chanNum, ws) ==
    IF chanNum > Len(S) THEN [Samples |-> ws, panic |-> ""]
    ELSE IF offset >= S[1].len THEN InterlacePlanar(A, S, 0, chanNum + 1, ws)
    ELSE IF ~InRange(S[chanNum], offset)
    THEN [Samples |-> ws, panic |-> "index out of range"]
    ELSE InterlacePlanar(A, S, offset + 1, chanNum,
                         Append(ws, Load(A, S[chanNum], offset)))

\* The two loops of NewWaveFromClip: offset outermost, channel innermost.
RECURSIVE Interlace(_, _, _, _, _)
Interlace(A, S, offset, chanNum, ws) ==
    IF offset >= S[1].len THEN [Samples |-> ws, panic |-> ""]
    ELSE IF chanNum > Len(S) THEN Interlace(A, S, offset + 1, 1, ws)
    ELSE IF ~InRange(S[chanNum], offset)
    THEN [Samples |-> ws, panic |-> "index out of range"]
    ELSE Interlace(A, S, offset, chanNum + 1, Append(ws, Load(A, S[chanNum], offset)))

\* NewWaveFromClip.  w.UpdateHeader() recomputes the header's length fields
\* from w.Samples; they are no part of this model.
NewWaveFromClip(A, c) ==
    LET fileName == IF ~Contains(c.Name, ".wav") THEN c.Name \o <<".wav">>
                    ELSE c.Name
    IN IF Len(c.Samples) = 0
       THEN [wave |-> NoFile, panic |-> "index out of range"]
       ELSE LET r == Interlace(A, c.Samples, 0, 1, <<>>)
            IN [wave |-> Wave(fileName, Int16(Len(c.Samples)),
                              Int32(c.SampleRate), r.Samples),
                panic |-> r.panic]

----------------------------------------------------------------------------
(* The program: one action per operation.  spare is the spare capacity the  *)
(* run time gives the backing arrays it allocates during the call.         *)

Running == panicked = "" /\ nops < MaxOps

Record(op, a, b, x, y, err, out) ==
    [op |-> op, a |-> a, b |-> b, x |-> x, y |-> y, err |-> err,
     pre |-> Contents(arrays, clips), out |-> out]

Init ==
    /\ arrays = <<>>
    /\ clips = <<>>
    /\ views = <<>>
    /\ files = {}
    /\ last = NoOp
    /\ panicked = ""
    /\ nops = 0

DoNewClip(n) ==
    /\ Running
    /\ Len(clips) < MaxClips
    /\ clips' = Append(clips, NewClip(n))
    /\ views' = Append(views, NoView)
    /\ last' = Record("NewClip", Len(clips) + 1, 0, n, 0, "", <<>>)
    /\ nops' = nops + 1
    /\ UNCHANGED <<arrays, files, panicked>>

\* src is the clip the file was written from, 0 for a file from outside.
DoNewClipFromWave(w, src, spare) ==
    /\ Running
    /\ Len(clips) < MaxClips
    /\ LET r == NewClipFromWave(arrays, w, spare) IN
        /\ panicked' = r.panic
        /\ arrays' = r.arrays
        /\ clips' = IF r.panic = "" THEN Append(clips, r.clip) ELSE clips
        /\ views' = IF r.panic = "" THEN Append(views, NoView) ELSE views
        /\ last' = Record("NewClipFromWave", Len(clips) + 1, src, 0, 0, r.err, w)
    /\ nops' = nops + 1
    /\ UNCHANGED files

DoAppend(a, b, spare) ==
    /\ Running
    /\ LET r == ClipAppend(arrays, clips[a], clips[b], spare) IN
        /\ arrays' = r.arrays
        /\ clips' = [clips EXCEPT ![a] = r.clip]
        /\ last' = Record("Append", a, b, 0, 0, r.err, <<>>)
    /\ nops' = nops + 1
    /\ UNCHANGED <<views, files, panicked>>

DoMix(a, b, spare) ==
    /\ Running
    /\ LET r == ClipMix(arrays, clips[a], clips[b], spare) IN
        /\ arrays' = r.arrays
        /\ last' = Record("Mix", a, b, 0, 0, r.err, r.stored)
    /\ nops' = nops + 1
    /\ UNCHANGED <<clips, views, files, panicked>>

DoSlice(a, startIndex, endIndex) ==
    /\ Running
    /\ Len(clips) < MaxClips
    /\ LET r == ClipSlice(arrays, clips[a], startIndex, endIndex) IN
        /\ panicked' = r.panic
        /\ clips' = IF r.panic = "" THEN Append(clips, r.clip) ELSE clips
        /\ views' = IF r.panic = ""
                    THEN Append(views, [of |-> a, start |-> startIndex, end |-> r.end])
                    ELSE views
        /\ last' = Record("Slice", a, Len(clips) + 1, startIndex, endIndex, r.err, <<>>)
    /\ nops' = nops + 1
    /\ UNCHANGED <<arrays, files>>

DoSplit(a, numDivisions) ==
    /\ Running
    /\ LET r == ClipSplit(arrays, clips[a], numDivisions) IN
        /\ panicked' = r.panic
        /\ clips' = IF r.panic = "" THEN clips \o r.clips ELSE clips
        /\ views' = IF r.panic = ""
                    THEN views \o [i \in 1..Len(r.clips) |->
                                     [of |-> a, start |-> r.step * (i - 1),
                                      end |-> r.step * i]]
                    ELSE views
        /\ last' = Record("Split", a, 0, numDivisions, r.step, "",
                          IF r.panic = ""
                          THEN [i \in 1..Len(r.clips) |-> Len(clips) + i]
                          ELSE <<>>)
    /\ nops' = nops + 1
    /\ UNCHANGED <<arrays, files>>

DoStretch(a, spare) ==
    /\ Running
    /\ LET r == ClipStretch(arrays, clips[a], spare) IN
        /\ panicked' = r.panic
        /\ arrays' = r.arrays
        /\ clips' = [clips EXCEPT ![a] = r.clip]
        /\ last' = Record("Stretch", a, 0, 0, 0, "", <<>>)
    /\ nops' = nops + 1
    /\ UNCHANGED <<views, files>>

DoReverse(a) ==
    /\ Running
    /\ arrays' = ClipReverse(arrays, clips[a])
    /\ last' = Record("Reverse", a, 0, 0, 0, "", <<>>)
    /\ nops' = nops + 1
    /\ UNCHANGED <<clips, views, files, panicked>>

DoNewWaveFromClip(a) ==
    /\ Running
    /\ LET r == NewWaveFromClip(arrays, clips[a]) IN
        /\ panicked' = r.panic
        /\ files' = IF r.panic = "" THEN files \cup {[src |-> a, wave |-> r.wave]}
                    ELSE files
        /\ last' = Record("NewWaveFromClip", a, 0, 0, 0, "", r.wave)
    /\ nops' = nops + 1
    /\ UNCHANGED <<arrays, clips, views>>

Next ==
    \/ \E n \in 0..MaxChannels : DoNewClip(n)
    \/ \E w \in Containers \cup {NoFile}, spare \in 0..MaxSpare :
          DoNewClipFromWave(w, 0, spare)
    \/ \E f \in files, spare \in 0..MaxSpare :
          DoNewClipFromWave(f.wave, f.src, spare)
    \/ \E a \in 1..Len(clips), b \in 1..Len(clips), spare \in 0..MaxSpare :
          DoAppend(a, b, spare)
    \/ \E a \in 1..Len(clips), b \in 1..Len(clips), spare \in 0..MaxSpare :
          DoMix(a, b, spare)
    \/ \E a \in 1..Len(clips), startIndex \in -1..MaxIdx + 1, endIndex \in 0..MaxIdx + 1 :
          DoSlice(a, startIndex, endIndex)
    \/ \E a \in 1..Len(clips), numDivisions \in 0..MaxDiv : DoSplit(a, numDivisions)
    \/ \E a \in 1..Len(clips), spare \in 0..MaxSpare : DoStretch(a, spare)
    \/ \E a \in 1..Len(clips) : DoReverse(a)
    \/ \E a \in 1..Len(clips) : DoNewWaveFromClip(a)

Spec == Init /\ [][Next]_vars

----------------------------------------------------------------------------
(* The buffer algebra on its own: the program has decoded its first clip,  *)
(* and from there builds clips, cuts views and mutates them in place.      *)

InitViews ==
    \E w \in Containers, spare \in 0..MaxSpare :
        LET r == NewClipFromWave(<<>>, w, spare) IN
        /\ r.panic = ""
        /\ arrays = r.arrays
        /\ clips = <<r.clip>>
        /\ views = <<NoView>>
        /\ files = {}
        /\ last = [op |-> "NewClipFromWave", a |-> 1, b |-> 0, x |-> 0, y |-> 0,
                   err |-> r.err, pre |-> <<>>, out |-> w]
        /\ panicked = ""
        /\ nops = 1

NextViews ==
    \/ \E n \in 0..MaxChannels : DoNewClip(n)
    \/ \E a \in 1..Len(clips), b \in 1..Len(clips), spare \in 0..MaxSpare :
          DoAppend(a, b, spare)
    \/ \E a \in 1..Len(clips), b \in 1..Len(clips), spare \in 0..MaxSpare :
          DoMix(a, b, spare)
    \/ \E a \in 1..Len(clips), startIndex \in 0..MaxIdx, endIndex \in 0..MaxIdx + 1 :
          startIndex <= endIndex /\ DoSlice(a, startIndex, endIndex)
    \/ \E a \in 1..Len(clips), numDivisions \in 1..MaxDiv : DoSplit(a, numDivisions)
    \/ \E a \in 1..Len(clips) : DoReverse(a)

SpecViews == InitViews /\ [][NextViews]_vars

----------------------------------------------------------------------------
(* Mix as a function of its operands: the program holds two one-channel    *)
(* clips s and t, each with its own backing array, and runs s.Mix(t).      *)

MaxInt32 == 2147483647
MinInt32 == -MaxInt32 - 1

SampleVals == {MinInt16, -16384, -1, 0, 1, 16384, MaxInt16}

SeqsUpTo(S, n) == UNION {[1..k -> S] : k \in 0..n}

OwnClip(k, len) ==
    [NewClip(1) EXCEPT !.Samples = <<[arr |-> k, off |-> 0, len |-> len]>>]

InitMix ==
    \E sc \in SeqsUpTo(SampleVals, MaxMixLen), tc \in SeqsUpTo(SampleVals, MaxMixLen) :
        /\ arrays = <<sc, tc>>
        /\ clips = <<OwnClip(1, Len(sc)), OwnClip(2, Len(tc))>>
        /\ views = <<NoView, NoView>>
        /\ files = {}
        /\ last = NoOp
        /\ panicked = ""
        /\ nops = 0

NextMix == \E spare \in 0..MaxSpare : nops = 0 /\ DoMix(1, 2, spare)

SpecMix == InitMix /\ [][NextMix]_vars

----------------------------------------------------------------------------
(* The codec adapter on its own: the program holds one well-formed clip    *)
(* whose name and sample rate its owner has set, writes clips to wave      *)
(* files and reads the files back.                                         *)

\* Sample rates of a clip (a Go int): 1, 8, 44100, 2^31 - 1, 2^31, 2^32 + 8.
Rates == {[hi |-> 0, lo |-> 1], [hi |-> 0, lo |-> 8], [hi |-> 0, lo |-> 44100],
          [hi |-> 0, lo |-> MaxInt32], [hi |-> 1, lo |-> MinInt32],
          [hi |-> 1, lo |-> 8]}

Names == {<<>>, <<"kick">>, <<"kick", ".wav">>}

\* Sample k of channel ch of the clip to encode: no two are equal.
Tone(ch, k) == IF ch % 2 = 1 THEN 10 * ch + k ELSE -(10 * ch + k)

InitCodec ==
    \E nc \in 1..MaxChannels, len \in 1..MaxCodecLen, rate \in Rates, name \in Names :
        /\ arrays = [ch \in 1..nc |-> [k \in 1..len |-> Tone(ch, k)]]
        /\ clips = <<[Samples |-> [ch \in 1..nc |-> [arr |-> ch, off |-> 0, len |-> len]],
                      Name |-> name, SampleRate |-> rate]>>
        /\ views = <<NoView>>
        /\ files = {}
        /\ last = NoOp
        /\ panicked = ""
        /\ nops = 0

NextCodec ==
    \/ \E a \in 1..Len(clips) : DoNewWaveFromClip(a)
    \/ \E f \in files, spare \in 0..MaxSpare : DoNewClipFromWave(f.wave, f.src, spare)

SpecCodec == InitCodec /\ [][NextCodec]_vars

----------------------------------------------------------------------------
(* Properties. *)

Max(x, y) == IF x >= y THEN x ELSE y

\* A 64-bit sample rate is greater than 0.
Positive(v) == v.hi > 0 \/ (v.hi = 0 /\ v.lo > 0)

\* The state of the clips now, channel by channel.
Now == Contents(arrays, clips)

\* A clip's contents c are well formed: its channels have one length.
Uniform(c) == \A ch \in 1..Len(c) : Len(c[ch]) = Len(c[1])

RECURSIVE Concat(_)
Concat(ss) == IF ss = <<>> THEN <<>> ELSE Head(ss) \o Concat(Tail(ss))

\* C5: a.Append(b) on clips with equal channel counts succeeds and leaves
\* every channel of a as a's old channel followed by b's channel (so of the
\* sum of their lengths); with unequal channel counts it returns an error
\* and leaves a as it was.
AppendExtendsTarget ==
    last.op = "Append" =>
        LET a == last.pre[last.a]
            b == last.pre[last.b]
        IN IF Len(a) = Len(b)
           THEN /\ last.err = ""
                /\ Len(Now[last.a]) = Len(a)
                /\ \A ch \in 1..Len(a) :
                      /\ Len(Now[last.a][ch]) = Len(a[ch]) + Len(b[ch])
                      /\ SubSeq(Now[last.a][ch], 1, Len(a[ch])) = a[ch]
                      /\ SubSeq(Now[last.a][ch], Len(a[ch]) + 1,
                                Len(a[ch]) + Len(b[ch])) = b[ch]
           ELSE /\ last.err # ""
                /\ Now[last.a] = a

\* A two-channel clip with samples has had another clip, a view with
\* samples, appended to it.
AppendWitness ==
    /\ last.op = "Append"
    /\ last.err = ""
    /\ last.a # last.b
    /\ Len(last.pre[last.a]) = 2
    /\ \A ch \in 1..2 : Len(last.pre[last.a][ch]) > 0 /\ Len(last.pre[last.b][ch]) > 0

\* C6: Split(b, n) of a clip b of per-channel length len, n > 0, returns n
\* clips, the i-th viewing the window [i*(len div n), (i+1)*(len div n)) of
\* b; the channel-0 segments concatenated are the first n*(len div n)
\* samples of b's channel 0, and no segment reaches the tail after them.
SplitWindows ==
    (/\ last.op = "Split"
     /\ last.x > 0
     /\ Len(last.pre[last.a]) > 0
     /\ Uniform(last.pre[last.a])) =>
        LET b == last.pre[last.a]
            n == last.x
            step == Len(b[1]) \div n
            src == clips[last.a].Samples
        IN /\ panicked = ""
           /\ Len(last.out) = n
           /\ Len(clips) = Len(last.pre) + n
           /\ \A i \in 1..n :
                 /\ last.out[i] = Len(last.pre) + i
                 /\ Len(clips[last.out[i]].Samples) = Len(b)
                 /\ \A ch \in 1..Len(b) :
                       /\ clips[last.out[i]].Samples[ch] =
                             [arr |-> src[ch].arr,
                              off |-> src[ch].off + (i - 1) * step,
                              len |-> step]
                       /\ Now[last.out[i]][ch] =
                             SubSeq(b[ch], (i - 1) * step + 1, i * step)
           /\ Concat([i \in 1..n |-> Now[last.out[i]][1]]) = SubSeq(b[1], 1, n * step)
           /\ Now[last.a] = b

\* A clip of three samples was split in two: one sample is left over.
SplitWitness ==
    /\ last.op = "Split"
    /\ panicked = ""
    /\ last.x = 2
    /\ Len(last.pre[last.a]) > 0
    /\ Uniform(last.pre[last.a])
    /\ Len(last.pre[last.a][1]) = 3
    /\ Len(last.out) = 2

\* The in-place operations on a clip.
InPlace == {"Append", "Mix", "Reverse"}

\* Sample k (from 0) of channel ch of clip s is what it was before the
\* last operation.
Kept(s, ch, k) == Now[s][ch][k + 1] = last.pre[s][ch][k + 1]

\* C10, as claimed: an in-place operation on a view t = s.Slice(start, end)
\* changes s only at offsets of the window [start, end).
ViewWritesInsideWindow ==
    (last.op \in InPlace /\ views[last.a].of # 0) =>
        LET v == views[last.a] IN
        \A ch \in 1..Len(Now[v.of]) : \A k \in 0..Len(Now[v.of][ch]) - 1 :
            (k < v.start \/ k >= v.end) => Kept(v.of, ch, k)

\* C10, amended: an in-place operation on a view t = s.Slice(start, end)
\* changes no sample of s at an offset below start.
ViewWritesNotBelowStart ==
    (last.op \in InPlace /\ views[last.a].of # 0) =>
        LET v == views[last.a] IN
        \A ch \in 1..Len(Now[v.of]) : \A k \in 0..Len(Now[v.of][ch]) - 1 :
            k < v.start => Kept(v.of, ch, k)

\* An in-place operation on a view that starts past s's first sample has
\* changed a sample of s after the window.
ViewWitness ==
    /\ last.op \in InPlace
    /\ views[last.a].of # 0
    /\ views[last.a].start > 0
    /\ \E ch \in 1..Len(Now[views[last.a].of]) :
          \E k \in 0..Len(Now[views[last.a].of][ch]) - 1 :
              k >= views[last.a].end /\ ~Kept(views[last.a].of, ch, k)

\* The sum of two samples clamped to the 16-bit range.
Clamp(x) == IF x > MaxInt16 THEN MaxInt16 ELSE IF x < MinInt16 THEN MinInt16 ELSE x

\* Sample i (from 1) of a channel c, zero past its end.
ZeroExtended(c, i) == IF i <= Len(c) THEN c[i] ELSE 0

\* C1: at every position aligned with a sample b of the second operand, the
\* value mix stores is the first operand's sample a (0 past its end) plus b,
\* clamped to [-32768, 32767]; when the second operand is no longer than the
\* first, the first operand holds these values and keeps the rest.
MixSaturates ==
    (last.op = "Mix" /\ last.err = "") =>
        \A ch \in 1..Len(last.pre[last.a]) :
            LET s == last.pre[last.a][ch]
                t == last.pre[last.b][ch]
            IN /\ Len(last.out[ch]) = Max(Len(s), Len(t))
               /\ \A i \in 1..Len(t) :
                     last.out[ch][i] = Clamp(ZeroExtended(s, i) + t[i])
               /\ Len(t) <= Len(s) =>
                     /\ Len(Now[last.a][ch]) = Len(s)
                     /\ \A i \in 1..Len(s) :
                           Now[last.a][ch][i] =
                               IF i <= Len(t) THEN Clamp(s[i] + t[i]) ELSE s[i]

\* Both clamps happened in one Mix: the sums passed 32767 at one position
\* and -32768 at the next.
MixWitness ==
    /\ last.op = "Mix"
    /\ last.pre[last.a][1] = <<16384, MinInt16>>
    /\ last.pre[last.b][1] = <<16384, -1>>
    /\ Now[last.a][1] = <<MaxInt16, MinInt16>>

\* C2: after s.Mix(t) on clips with equal channel counts every channel of s
\* has the length of the longer of the two channels, and t is as it was.
MixGrowsToLonger ==
    (last.op = "Mix" /\ last.err = "" /\ last.a # last.b) =>
        /\ \A ch \in 1..Len(last.pre[last.a]) :
              Len(Now[last.a][ch]) =
                  Max(Len(last.pre[last.a][ch]), Len(last.pre[last.b][ch]))
        /\ Now[last.b] = last.pre[last.b]

\* C3: Stretch of a well-formed clip of per-channel length L completes and
\* leaves every channel with length 2L, sample 2k the old sample k and
\* sample 2k+1 zero.
StretchDoubles ==
    (/\ last.op = "Stretch"
     /\ Len(last.pre[last.a]) > 0
     /\ Uniform(last.pre[last.a])) =>
        /\ panicked = ""
        /\ \A ch \in 1..Len(last.pre[last.a]) :
              LET old == last.pre[last.a][ch]
                  new == Now[last.a][ch]
              IN /\ Len(new) = 2 * Len(old)
                 /\ \A k \in 0..Len(old) - 1 :
                       new[2 * k + 1] = old[k + 1] /\ new[2 * k + 2] = 0

\* C7: whenever no operation is running, every clip the program holds has
\* channels of one length.
ClipsWellFormed ==
    panicked = "" => \A k \in 1..Len(clips) : Uniform(Now[k])

\* C8: Slice with a start index outside the source (negative, past the
\* per-channel length, or past the clamped end index) returns a RangeError
\* and leaves the source as it was, without a panic.
SliceRangeError ==
    (/\ last.op = "Slice"
     /\ Len(last.pre[last.a]) > 0
     /\ LET len == Len(last.pre[last.a][1])
            end == IF last.y > len THEN len ELSE last.y
        IN last.x < 0 \/ last.x > len \/ last.x > end) =>
        /\ panicked = ""
        /\ last.err = "RangeError"
        /\ Now = last.pre

\* C9: a clip decoded from a container has the container's channel count
\* and sample rate, and the container's file name as its name.
DecodeCopiesHeader ==
    (last.op = "NewClipFromWave" /\ last.err = "" /\ panicked = "") =>
        /\ Len(clips[last.a].Samples) = last.out.NumChannels
        /\ clips[last.a].SampleRate = Int64(last.out.SampleRate)
        /\ clips[last.a].Name = last.out.FileName

\* The clip clips[k] is what was decoded from the file written from clip
\* last.b: same channel count, same sample rate, same samples.
SameClip(c, d) ==
    /\ Len(clips[d].Samples) = Len(clips[c].Samples)
    /\ clips[d].SampleRate = clips[c].SampleRate
    /\ Now[d] = Now[c]

\* The last operation decoded the file written from a well-formed clip
\* with at least one sample per channel.
RoundTripDone ==
    /\ last.op = "NewClipFromWave"
    /\ last.b # 0
    /\ Len(Now[last.b]) > 0
    /\ Uniform(Now[last.b])
    /\ Len(Now[last.b][1]) >= 1

\* C4, as claimed: encoding a well-formed clip with a sample rate > 0 and
\* decoding the container gives a clip with its channel count, sample rate
\* and samples.
RoundTrip ==
    (RoundTripDone /\ Positive(clips[last.b].SampleRate)) =>
        panicked = "" /\ last.err = "" /\ SameClip(last.b, last.a)

\* C4, amended: so it is when the sample rate is in 1..2^31-1 and the clip
\* has at most 32767 channels, which is what the container's header holds.
RoundTripInHeaderRange ==
    (/\ RoundTripDone
     /\ clips[last.b].SampleRate.hi = 0
     /\ clips[last.b].SampleRate.lo > 0
     /\ Len(clips[last.b].Samples) <= MaxInt16) =>
        panicked = "" /\ last.err = "" /\ SameClip(last.b, last.a)

\* A two-channel clip of two samples a channel, at 44100 Hz, went through a
\* file and back.
RoundTripWitness ==
    /\ RoundTripDone
    /\ Len(Now[last.b]) = 2
    /\ Len(Now[last.b][1]) = 2
    /\ clips[last.b].SampleRate = Int64(44100)
    /\ SameClip(last.b, last.a)

====
